---------------------------- MODULE Spec2Model ----------------------------
(***************************************************************************)
(* Link-validation engine of python_utils: the probe of one URL            *)
(* (_check_single_link / check_single_url), the two batch strategies       *)
(* (check_links_concurrent on a worker pool, async_check_links behind a    *)
(* counting semaphore) and the circuit breaker of LinkCheckerService; and   *)
(* the RateLimitMiddleware of docker_examples_utils (RateSpec).            *)
(*                                                                         *)
(* Strings are sequences of tokens (each token a TLA+ string), so that     *)
(* Python's substring test `a in b` and f-string concatenation are         *)
(* computed, not assumed.  response_time (wall clock) is not modelled.     *)
(***************************************************************************)
EXTENDS Integers, Sequences, FiniteSets

\* ------------------------------------------------------------------ bounds
\* direct calls of _check_single_link made on one service object
MaxCalls == 7
\* URLs of one batch
MaxUrls == 3
\* largest max_workers / max_concurrency a caller passes
MaxConcurrency == 2
\* requests the middleware is handed
MaxRequests == 4
\* last reading of the clock
MaxTime == 3
\* largest rate_limit_requests of a configuration
MaxLimit == 2
\* largest rate_limit_window_seconds of a configuration
MaxWindow == 2

\* ----------------------------------------------------------------- strings
\* s contains sub as a contiguous run of tokens (Python: sub in s)
Contains(s, sub) ==
    \E i \in 1..(Len(s) - Len(sub) + 1) : SubSeq(s, i, i + Len(sub) - 1) = sub

Digit(d) == <<"0", "1", "2", "3", "4", "5", "6", "7", "8", "9">>[d + 1]

RECURSIVE ToStr(_)
\* str(n) of a natural number, one token per digit
ToStr(n) == IF n < 10 THEN <<Digit(n)>> ELSE ToStr(n \div 10) \o <<Digit(n % 10)>>

\* an absent optional: status_code None (falsy, like 0) and error_message None
NoStatus == 0
NoneMsg == <<"<None>">>
\* Python truthiness of an optional string: None and "" are falsy
Truthy(msg) == msg # NoneMsg /\ msg # <<>>

\* ---------------------------------------------------------------- the URLs
uLocal == <<"http://", "localhost", ":9999/x">>
uLoop  == <<"http://", "127.0.0.1", "/ok">>
uGood  == <<"https://", "good.example", "/ok">>
uBad   == <<"https://", "bad.example", "/missing">>
uMoved == <<"https://", "api.example", "/hook">>
uHook  == <<"https://", "hooks.example", "/push">>
uBusy  == <<"https://", "busy.example", "/feed">>
uFlaky == <<"https://", "flaky.example", "/feed">>
uCi    == <<"https://", "ci.example", "/", "skipped", "-tests">>
uDown  == <<"https://", "down.example", "/page">>
uKill  == <<"https://", "kill.example", "/page">>

\* URLs a caller passes to a direct call of _check_single_link
DirectUrls == {uLocal, uLoop, uGood, uBad, uMoved, uHook, uBusy, uFlaky, uCi, uDown, uKill}
\* URLs of the documents of a batch (for async_check_links, in the caller's order)
BatchUrls == <<uLocal, uDown, uGood, uBad, uCi, uKill>>

PathOf(url) == SubSeq(url, 3, Len(url))

\* ------------------------------------------------------------- the origins
\* What the origin of a URL answers to each attempt of a request: a sequence of
\* answers, the last one repeated for every further attempt.
St(code) == [kind |-> "status", code |-> code]
Fail(kind) == [kind |-> kind, code |-> NoStatus]

OriginScript(url, method) ==
    CASE url = uLoop  -> <<St(200)>>
      [] url = uGood  -> <<St(200)>>
      [] url = uBad   -> <<St(404)>>
      [] url = uMoved -> IF method = "HEAD" THEN <<St(405)>> ELSE <<St(200)>>
      [] url = uHook  -> IF method = "HEAD" THEN <<St(405)>> ELSE <<Fail("timeout")>>
      [] url = uBusy  -> <<St(503)>>
      [] url = uFlaky -> <<St(503), St(200)>>
      [] url = uCi    -> <<Fail("conn_error")>>
      [] url = uDown  -> <<Fail("timeout")>>
      [] url = uKill  -> <<Fail("base_exc")>>
      [] OTHER        -> <<Fail("conn_error")>>

\* ------------------------------------------------- the session (__init__)
\* Retry(total=3, status_forcelist=[429, 500, 502, 503, 504]) mounted on the session
retry_total == 3
status_forcelist == {429, 500, 502, 503, 504}

HostOf(url) == url[2]

\* the connection pool of the URL's origin, as urllib3 prints it
PoolText(url) ==
    IF url[1] = "https://"
    THEN <<"HTTPSConnectionPool(host='", HostOf(url), "', port=443): ">>
    ELSE <<"HTTPConnectionPool(host='", HostOf(url), "', port=80): ">>

\* the reason of the MaxRetryError: what the last attempt ended with
CauseText(url, answer) ==
    CASE answer.kind = "timeout" ->
            <<"ReadTimeoutError(\"">> \o PoolText(url)
                \o <<"Read timed out. (read timeout=10)", "\")">>
      [] answer.kind = "status" ->
            <<"ResponseError('too many ">> \o ToStr(answer.code)
                \o <<" error responses')">>
      [] OTHER ->
            <<"NewConnectionError('", "<urllib3.connection.HTTPSConnection object>",
              ": Failed to establish a new connection: [Errno 111] Connection refused",
              "')">>

\* str(e) of the exception the session raises once the retries are used up: the text of
\* urllib3's MaxRetryError, which names the pool, the path and the reason
ExceptionText(url, answer) ==
    PoolText(url) \o <<"Max retries exceeded with url: ">> \o PathOf(url)
        \o <<" (Caused by ">> \o CauseText(url, answer) \o <<")">>

Response(code) == [kind |-> "response", code |-> code, text |-> <<>>]
Raises(text) == [kind |-> "exception", code |-> NoStatus, text |-> text]
RaisesBase == [kind |-> "base_exception", code |-> NoStatus, text |-> <<>>]

RECURSIVE SendRetry(_, _, _)
\* one session.head / session.get through the retrying adapter: `used` retries so far
SendRetry(url, script, used) ==
    LET answer == script[IF used + 1 <= Len(script) THEN used + 1 ELSE Len(script)] IN
    IF answer.kind = "base_exc" THEN RaisesBase
    ELSE IF answer.kind = "status" /\ answer.code \notin status_forcelist
         THEN Response(answer.code)
    ELSE IF used < retry_total THEN SendRetry(url, script, used + 1)
    ELSE Raises(ExceptionText(url, answer))

\* session.head(url, ...) / session.get(url, ...)
Send(url, method) == SendRetry(url, OriginScript(url, method), 0)

\* ------------------------------------------------------------- LinkResult
LinkResult(url, is_valid, status_code, error_message) ==
    [url |-> url, is_valid |-> is_valid,
     status_code |-> status_code, error_message |-> error_message]

NoResult == LinkResult(<<>>, FALSE, NoStatus, NoneMsg)

\* ------------------------------------------------------------- the skip list
skip_domains == <<<<"localhost">>, <<"127.0.0.1">>, <<"0.0.0.0">>>>

ShouldSkip(url) == \E k \in 1..Len(skip_domains) : Contains(url, skip_domains[k])


\* ------------------------------------------------- _check_single_link
SkipResult(url) == LinkResult(url, TRUE, NoStatus, <<"skipped">>)

UnavailableResult(url) == LinkResult(url, FALSE, NoStatus, <<"requests not available">>)

\* a result that takes every status below 500 for valid
ResponseResultLax(url, code) == LinkResult(url, code < 500, code, NoneMsg)

ResponseResult(url, code) == LinkResult(url, code < 400, code, NoneMsg)

ExceptResult(url, text) == LinkResult(url, FALSE, NoStatus, text)

\* ------------------------------------ check_single_url (async_check_links)
AsyncTuple(url, is_valid, reason) == [url |-> url, is_valid |-> is_valid, reason |-> reason]

AsyncSkip(url) == AsyncTuple(url, TRUE, <<"skipped">>)

AsyncResponse(url, code) == AsyncTuple(url, code < 400, <<"status: ">> \o ToStr(code))

AsyncExcept(url, text) == AsyncTuple(url, FALSE, text)

\* ------------------------------------------------------ the circuit breaker
\* LinkCheckerService (services/link_checker.py): failure_count, failure_threshold,
\* circuit_open
failure_threshold == 5

Breaker(count, open) == [failure_count |-> count, circuit_open |-> open]

CircuitOpenResult(url) == LinkResult(url, FALSE, NoStatus, <<"circuit breaker open">>)

AsyncCircuitOpen(url) == AsyncTuple(url, FALSE, <<"circuit breaker open">>)

\* ------------------------------------------------------------------- state
VARIABLES
    service_class,  \* "DocUtils" (no breaker) or "LinkCheckerService"
    breaker_rule,   \* which breaker the LinkCheckerService has, "none" for DocUtils
    session,        \* TRUE: requests imported and self.session built; FALSE: None
    has_interpreters, \* _has_interpreters: the runtime offers the isolated executor
    no_interpreters,  \* the caller disabled it (--no-interpreters, use_interpreters=False)
    use_interpreters, \* self.use_interpreters
    executor_class, \* the executor check_links_concurrent built, "None" when it built none
    strategy,       \* entry point of the batch: "none", "pool" or "async"
    start,          \* the breaker when the batch started
    prior,          \* the batch run before this one on the same links, NoPrior if none
    failure_count,  \* consecutive transport failures (LinkCheckerService)
    circuit_open,   \* the breaker has tripped (LinkCheckerService)
    mode,           \* "direct", "pool", "failing", "async", "returned", "crashed"
    task,           \* the probes: [pc, url, ret]; one slot for direct calls
    max_workers,    \* max_workers / max_concurrency of the batch
    semaphore,      \* free permits of asyncio.Semaphore(max_concurrency)
    urls,           \* the URLs handed to the batch (all_links / urls)
    results,        \* {"valid": [], "broken": [], "skipped": []}
    n_probed,       \* direct calls made so far on URLs outside the skip list
    n_io,           \* HEAD and GET requests issued (direct calls; then the batch)
    all_raised,     \* every request of the direct calls so far raised an exception
    only_http,      \* every origin so far answered each attempt with an HTTP status
    config,         \* RateLimitMiddleware.config (get_security_config())
    requests,       \* RateLimitMiddleware.requests: client -> recorded request times
    current_time,   \* what time.time() returns
    log             \* every request dispatch answered: the request, its time, the answer

\* what the constructor fixed
service == <<service_class, breaker_rule, session, has_interpreters, no_interpreters,
            use_interpreters>>
\* what the start of a batch fixes
batch == <<executor_class, strategy, start, prior>>

\* the rate limiter
limiter == <<config, requests, current_time, log>>

\* the link checker
checker == <<service, batch, failure_count, circuit_open, mode, task,
             max_workers, semaphore, urls, results, n_probed, n_io, all_raised,
             only_http>>

vars == <<checker, limiter>>

HasBreaker == service_class = "LinkCheckerService"

\* services/link_checker.py is known by spec 4.2/4.3 and by tests/test_link_checker.py.
\* After six calls whose request raises, the test of the breaker's activation finds
\* failure_count = 6 and circuit_open; one failing call leaves failure_count = 1.  Two
\* breakers give these values, and the tests do not tell them apart:
\*   "counts_rejected": opens at the failure that brings the counter to
\*       failure_threshold; a call turned away by the open breaker adds one to the counter
\*   "opens_late": opens at the failure that brings the counter above
\*       failure_threshold; a call turned away records nothing
\* The service is one of the two; DocUtils has no breaker ("none").
BreakerRules == {"counts_rejected", "opens_late"}

\* the value of the counter at which recordFailure() opens the breaker
TripAt == IF breaker_rule = "opens_late" THEN failure_threshold + 1 ELSE failure_threshold

\* a call turned away by the open breaker is counted as a failure
CountsRejected == breaker_rule = "counts_rejected"

\* recordFailure(): one more consecutive failure; opens when the counter reaches TripAt
RecordFailure(count, open) ==
    Breaker(count + 1, open \/ count + 1 >= TripAt)

\* recordSuccess() that closes the breaker again
RecordSuccessCloses(count, open) == Breaker(0, FALSE)

\* recordSuccess() that keeps the counter
RecordSuccessKeeps(count, open) == Breaker(count, open)

\* recordSuccess(): the consecutive-failure counter restarts; an open breaker stays open
RecordSuccess(count, open) == Breaker(0, open)

\* one probe: where it stands, its URL, the value it returned and the requests it issued
Slot(pc, url, ret, calls) == [pc |-> pc, url |-> url, ret |-> ret, calls |-> calls]

EmptyResults == [valid |-> <<>>, broken |-> <<>>, skipped |-> <<>>]

InFlight == {i \in 1..Len(task) : task[i].pc \in {"head", "get"}}

Quiet(i) == task[i].pc \in {"idle", "done", "raised"}

\* use_interpreters the command line passes to the service
CliUseInterpreters(disabled, runtime) == ~disabled /\ runtime

\* self.use_interpreters = use_interpreters and _has_interpreters
UseInterpreters(arg, runtime) == arg /\ runtime

\* --------------------------------------------- RateLimitMiddleware: requests
\* a request: the X-Forwarded-For header split at its commas (<<>> when absent), the
\* X-Real-IP header ("" when absent) and request.client.host ("" when client is None)
Request(forwarded_for, real_ip, host) ==
    [forwarded_for |-> forwarded_for, real_ip |-> real_ip, host |-> host]

ipA == "10.0.0.1"
ipB == "10.0.0.2"
ipProxy == "10.0.0.9"

\* A connects itself; A comes through the proxy; B comes through a proxy that sets
\* X-Real-IP only
Requests ==
    {Request(<<>>, "", ipA),
     Request(<<ipA, ipProxy>>, "", ipProxy),
     Request(<<>>, ipB, ipProxy)}

\* _get_client_ip
ClientIp(request) ==
    IF request.forwarded_for # <<>> THEN request.forwarded_for[1]
    ELSE IF request.real_ip # "" THEN request.real_ip
    ELSE IF request.host # "" THEN request.host
    ELSE "unknown"

ClientIps == {ClientIp(request) : request \in Requests}

\* the security configuration the middleware reads
Config(enabled, limit, window) ==
    [enable_rate_limiting |-> enabled, rate_limit_requests |-> limit,
     rate_limit_window_seconds |-> window]

Configs ==
    {Config(enabled, limit, window) :
        enabled \in BOOLEAN, limit \in 1..MaxLimit, window \in 1..MaxWindow}

\* RateLimitMiddleware.__init__ with one of the configurations
LimiterInit(configs) ==
    /\ config \in configs
    /\ requests = [client_ip \in ClientIps |-> <<>>]
    /\ current_time = 0
    /\ log = <<>>

NoPrior == [strategy |-> "none"]

\* the link checker after construction
CheckerInit ==
    /\ service_class \in {"DocUtils", "LinkCheckerService"}
    /\ breaker_rule \in IF service_class = "LinkCheckerService" THEN BreakerRules
                                                                 ELSE {"none"}
    /\ session \in BOOLEAN
    /\ has_interpreters \in BOOLEAN
    /\ no_interpreters \in BOOLEAN
    /\ use_interpreters =
            UseInterpreters(CliUseInterpreters(no_interpreters, has_interpreters),
                            has_interpreters)
    /\ executor_class = "None"
    /\ strategy = "none"
    /\ start = Breaker(0, FALSE)
    /\ prior = NoPrior
    /\ failure_count = 0
    /\ circuit_open = FALSE
    /\ mode = "direct"
    /\ task = <<Slot("idle", <<>>, NoResult, <<>>)>>
    /\ max_workers = 0
    /\ semaphore = 0
    /\ urls = <<>>
    /\ results = EmptyResults
    /\ n_probed = 0
    /\ n_io = 0
    /\ all_raised = TRUE
    /\ only_http = TRUE

\* the link checker runs on its own: no request reaches the middleware
Init == CheckerInit /\ LimiterInit({Config(FALSE, 1, 1)})

\* ------------------------------------------------------------ one probe
\* isOpenNow() of the service's breaker, read before any request
BreakerCheck == HasBreaker /\ circuit_open

\* The checks made before any request, in the order of the code: which way the call goes
\* a probe that takes the session for granted
SessionMissingNever == FALSE

\* `if not self.session`
SessionMissing == ~session

\* cast(Session, self.session) in check_single_url of DocUtils: the module imports the
\* name Session under TYPE_CHECKING only, so evaluating it raises NameError
SessionUnbound == mode = "async" /\ service_class = "DocUtils"

\* the breaker consulted before the skip list
EntryDecisionBreakerFirst(url) ==
    IF BreakerCheck THEN "circuit"
    ELSE IF ShouldSkip(url) THEN "skip"
    ELSE IF SessionMissing THEN "unavailable"
    ELSE IF SessionUnbound THEN "name_error"
    ELSE "head"

EntryDecision(url) ==
    IF ShouldSkip(url) THEN "skip"
    ELSE IF BreakerCheck THEN "circuit"
    ELSE IF SessionMissing THEN "unavailable"
    ELSE IF SessionUnbound THEN "name_error"
    ELSE "head"

\* str(e) of the NameError, returned by `except Exception` as the task's reason
NameErrorResult(url) == AsyncExcept(url, <<"name 'Session' is not defined">>)

\* the value the call returns at once, when it does
EntryResult(url) ==
    CASE EntryDecision(url) = "skip" ->
            IF mode = "async" THEN AsyncSkip(url) ELSE SkipResult(url)
      [] EntryDecision(url) = "circuit" ->
            IF mode = "async" THEN AsyncCircuitOpen(url) ELSE CircuitOpenResult(url)
      [] EntryDecision(url) = "name_error" -> NameErrorResult(url)
      [] OTHER -> UnavailableResult(url)

\* a request as the session's mock would log it: the method called and the status of
\* the response it returned, NoStatus while it is in flight or when it raised
Call(method) == [method |-> method, code |-> NoStatus]

Answered(calls, outcome) == [calls EXCEPT ![Len(calls)].code = outcome.code]

\* a probe whose return through the skip check counts as a success of the breaker
BreakerOnEntryResets(decision) ==
    IF HasBreaker /\ decision = "skip"
    THEN RecordSuccess(failure_count, circuit_open)
    ELSE Breaker(failure_count, circuit_open)

\* the breaker after the checks made before any request: the skip check and the missing
\* session record nothing; the rejection by the open breaker adds one to failure_count
\* on the breaker that counts rejected calls and records nothing on the other
BreakerOnEntry(decision) ==
    IF HasBreaker /\ CountsRejected /\ decision = "circuit"
    THEN Breaker(failure_count + 1, circuit_open)
    ELSE Breaker(failure_count, circuit_open)

\* slot i enters the probe of its URL
Enter(i, url) ==
    /\ IF EntryDecision(url) = "head"
       THEN /\ task' = [task EXCEPT ![i] = Slot("head", url, NoResult, <<Call("HEAD")>>)]
            /\ n_io' = n_io + 1
       ELSE /\ task' = [task EXCEPT ![i] = Slot("done", url, EntryResult(url), <<>>)]
            /\ n_io' = n_io
    /\ failure_count' = BreakerOnEntry(EntryDecision(url)).failure_count
    /\ circuit_open' = BreakerOnEntry(EntryDecision(url)).circuit_open

\* a handler that catches nothing: every exception leaves the probe
EscapesAll(outcome) == outcome.kind # "response"

\* `except Exception`: what the probe's handler does not catch
Escapes(outcome) == outcome.kind = "base_exception"

\* a breaker kept by the worker of the isolated executor: what a probe records there
\* does not reach the service
BreakerAfterInWorker(outcome) ==
    IF ~HasBreaker \/ Escapes(outcome) \/ executor_class = "InterpreterPoolExecutor"
    THEN Breaker(failure_count, circuit_open)
    ELSE IF outcome.kind = "exception" THEN RecordFailure(failure_count, circuit_open)
    ELSE RecordSuccess(failure_count, circuit_open)

\* the breaker after the outcome the probe ends with (spec 4.2): recordFailure() for a
\* transport exception, recordSuccess() for a response, each applied in one step as the
\* concurrency contract of the breaker requires
BreakerAfter(outcome) ==
    IF ~HasBreaker \/ Escapes(outcome)
    THEN Breaker(failure_count, circuit_open)
    ELSE IF outcome.kind = "exception" THEN RecordFailure(failure_count, circuit_open)
    ELSE RecordSuccess(failure_count, circuit_open)

\* the value the probe returns for the outcome of its last request
Returned(url, outcome) ==
    IF outcome.kind = "response"
    THEN IF mode = "async" THEN AsyncResponse(url, outcome.code)
                           ELSE ResponseResult(url, outcome.code)
    ELSE IF mode = "async" THEN AsyncExcept(url, outcome.text)
                           ELSE ExceptResult(url, outcome.text)

OriginIsHttp(url, method) ==
    \A k \in 1..Len(OriginScript(url, method)) : OriginScript(url, method)[k].kind = "status"

\* a HEAD answered with any error status is reissued as a GET
FallsBackOnError(method, outcome) ==
    method = "HEAD" /\ outcome.kind = "response" /\ outcome.code >= 400

\* a HEAD answered 405 is reissued as a GET
FallsBack(method, outcome) ==
    method = "HEAD" /\ outcome.kind = "response" /\ outcome.code = 405

\* a permit given back only when the request returned a response
ReleasedOnResponse(outcome) == IF outcome.kind = "response" THEN 1 ELSE 0

\* `async with semaphore`: the permits the task gives back when it leaves the block,
\* by return or by exception
Released(outcome) == 1

\* slot i receives the outcome of the request it has in flight
Receive(i, method) ==
    LET url == task[i].url
        outcome == Send(url, method)
        after == BreakerAfter(outcome)
        calls == Answered(task[i].calls, outcome)
    IN  /\ IF FallsBack(method, outcome)
           THEN /\ task' = [task EXCEPT ![i] =
                                Slot("get", url, NoResult, Append(calls, Call("GET")))]
                /\ n_io' = n_io + 1
                /\ UNCHANGED <<failure_count, circuit_open, semaphore>>
           ELSE /\ task' = [task EXCEPT ![i] =
                        IF Escapes(outcome)
                        THEN Slot("raised", url, NoResult, calls)
                        ELSE Slot("done", url, Returned(url, outcome), calls)]
                /\ n_io' = n_io
                /\ failure_count' = after.failure_count
                /\ circuit_open' = after.circuit_open
                /\ semaphore' = IF mode = "async" THEN semaphore + Released(outcome)
                                                   ELSE semaphore
        /\ all_raised' = (all_raised /\ (mode # "direct" \/ outcome.kind = "exception"))
        /\ only_http' = (only_http /\ OriginIsHttp(url, method))

\* ------------------------------------------------------------ the actions
\* a caller invokes _check_single_link(url) on the service
DirectCall(url) ==
    /\ mode = "direct"
    /\ Quiet(1)
    /\ n_probed < MaxCalls
    /\ Enter(1, url)
    /\ n_probed' = IF ShouldSkip(url) THEN n_probed ELSE n_probed + 1
    /\ UNCHANGED <<limiter, service, batch, mode,
                   max_workers, semaphore, urls, results, all_raised, only_http>>

\* the HEAD of probe i is answered (or raises)
HeadResponse(i) ==
    /\ task[i].pc = "head"
    /\ Receive(i, "HEAD")
    /\ UNCHANGED <<limiter, service, batch, mode, max_workers, urls, results, n_probed>>

\* the GET of probe i is answered (or raises)
GetResponse(i) ==
    /\ task[i].pc = "get"
    /\ Receive(i, "GET")
    /\ UNCHANGED <<limiter, service, batch, mode, max_workers, urls, results, n_probed>>

\* the links of the documents: BatchUrls[k] for k in picks.  For check_links_concurrent
\* they are the members of the set all_links, listed here in the order of BatchUrls; the
\* order in which the set is gone through is WorkerStart's choice.
RECURSIVE Links(_, _)
Links(picks, k) ==
    IF k > Len(BatchUrls) THEN <<>>
    ELSE (IF k \in picks THEN <<BatchUrls[k]>> ELSE <<>>) \o Links(picks, k + 1)

Pending(list) == [i \in 1..Len(list) |-> Slot("pending", list[i], NoResult, <<>>)]

\* a check for links that is never true
NoLinksNever(list) == FALSE

\* `if not all_links`
NoLinks(list) == list = <<>>

\* an executor chosen with `or` in place of `and`
ExecutorClassEither(use, runtime) ==
    IF use \/ runtime THEN "InterpreterPoolExecutor" ELSE "ThreadPoolExecutor"

\* executor_class: `self.use_interpreters and _has_interpreters and
\* InterpreterPoolExecutor is not None`; the name InterpreterPoolExecutor is bound
\* exactly when _has_interpreters is true
ExecutorClass(use, runtime) ==
    IF use /\ runtime THEN "InterpreterPoolExecutor" ELSE "ThreadPoolExecutor"

\* the members of a list
SetOf(list) == {list[k] : k \in 1..Len(list)}

\* the breaker and its history as a batch finds them
AtStart ==
    [failure_count |-> failure_count, circuit_open |-> circuit_open]

\* the report of the batch that just returned, each bucket as a set
AsPrior ==
    [strategy |-> strategy, executor_class |-> executor_class, start |-> start,
     max_workers |-> max_workers, urls |-> SetOf(urls),
     valid |-> SetOf(results.valid), broken |-> SetOf(results.broken),
     skipped |-> SetOf(results.skipped)]

\* the body of check_links_concurrent over all_links = list, up to the submission
PoolBatch(list, workers, use) ==
    /\ results' = EmptyResults
    /\ IF NoLinks(list)
       THEN /\ mode' = "returned"
            /\ task' = <<>>
            /\ executor_class' = "None"
       ELSE /\ mode' = "pool"
            /\ task' = Pending(list)
            /\ executor_class' = ExecutorClass(use, has_interpreters)
    /\ strategy' = "pool"
    /\ start' = AtStart
    /\ max_workers' = workers
    /\ n_probed' = 0
    /\ n_io' = 0
    /\ all_raised' = FALSE
    /\ urls' = list
    /\ UNCHANGED <<limiter, service_class, breaker_rule, session, has_interpreters,
                   failure_count,
                   circuit_open, semaphore, only_http>>

\* check_links_concurrent(max_workers=workers) over documents holding the picked links
CheckLinksConcurrent(picks, workers) ==
    /\ mode = "direct"
    /\ Quiet(1)
    /\ Cardinality(picks) <= MaxUrls
    /\ PoolBatch(Links(picks, 1), workers, use_interpreters)
    /\ prior' = NoPrior
    /\ UNCHANGED <<no_interpreters, use_interpreters>>

\* the caller sets use_interpreters to False on the service whose isolated batch
\* returned and calls check_links_concurrent again over the same documents
CheckLinksWithThreads ==
    /\ mode = "returned"
    /\ prior = NoPrior
    /\ strategy = "pool"
    /\ executor_class = "InterpreterPoolExecutor"
    /\ no_interpreters' = TRUE
    /\ use_interpreters' = FALSE
    /\ prior' = AsPrior
    /\ PoolBatch(urls, max_workers, FALSE)

\* a pool that starts every submitted probe at once
WorkerFreeUnbounded == TRUE

\* executor_class(max_workers=max_workers): a worker of the pool is free
WorkerFree == Cardinality(InFlight) < max_workers

\* a free worker of the pool takes the next submitted probe.  `for link in all_links`
\* submits in the iteration order of a set of str, which changes with the hash seed of
\* the process: the next probe submitted is any of those not yet started
WorkerStart(i) ==
    /\ mode \in {"pool", "failing"}
    /\ task[i].pc = "pending"
    /\ WorkerFree
    /\ Enter(i, task[i].url)
    /\ UNCHANGED <<limiter, service, batch, mode,
                   max_workers, semaphore, urls, results, n_probed, all_raised,
                   only_http>>

\* results[...].append(...) of check_links_concurrent for one LinkResult
PoolBucket(result) ==
    IF Truthy(result.error_message) /\ Contains(result.error_message, <<"skipped">>)
    THEN "skipped"
    ELSE IF result.is_valid THEN "valid" ELSE "broken"

StatusInfo(result) ==
    IF result.status_code # NoStatus
    THEN <<" (", "status: ">> \o ToStr(result.status_code) \o <<")">>
    ELSE <<>>

PoolEntry(result) ==
    IF PoolBucket(result) = "broken" THEN result.url \o StatusInfo(result) ELSE result.url

Put(report, bucket, entry) == [report EXCEPT ![bucket] = Append(@, entry)]

\* as_completed yields the finished future i and its result is put in a bucket
Collect(i) ==
    /\ mode = "pool"
    /\ task[i].pc = "done"
    /\ results' = Put(results, PoolBucket(task[i].ret), PoolEntry(task[i].ret))
    /\ task' = [task EXCEPT ![i].pc = "collected"]
    /\ UNCHANGED <<limiter, service, batch, failure_count, circuit_open, mode,
                   max_workers, semaphore, urls, n_probed, n_io, all_raised, only_http>>

\* future.result() re-raises what escaped _check_single_link: the loop is left
CollectRaises(i) ==
    /\ mode = "pool"
    /\ task[i].pc = "raised"
    /\ mode' = "failing"
    /\ UNCHANGED <<limiter, service, batch, failure_count, circuit_open, task,
                   max_workers, semaphore, urls, results, n_probed, n_io, all_raised,
                   only_http>>

Unfinished == {i \in 1..Len(task) : task[i].pc \in {"pending", "head", "get"}}

\* the executor's with-block has waited for its workers and the exception leaves the batch
PoolRaises ==
    /\ mode = "failing"
    /\ Unfinished = {}
    /\ mode' = "crashed"
    /\ UNCHANGED <<limiter, service, batch, failure_count, circuit_open, task,
                   max_workers, semaphore, urls, results, n_probed, n_io, all_raised,
                   only_http>>

\* a loop that is left after the first future
AllCollectedFirst == \E i \in 1..Len(task) : task[i].pc = "collected"

\* as_completed(futures) is exhausted: every future was yielded and its result stored
AllCollected == \A i \in 1..Len(task) : task[i].pc = "collected"

\* every future was collected: check_links_concurrent returns results
PoolReturn ==
    /\ mode = "pool"
    /\ AllCollected
    /\ mode' = "returned"
    /\ UNCHANGED <<limiter, service, batch, failure_count, circuit_open, task,
                   max_workers, semaphore, urls, results, n_probed, n_io, all_raised,
                   only_http>>

\* the URLs alone, without the reason
UnavailableBare(list) == list

\* results["broken"] of async_check_links without a session
Unavailable(list) ==
    [i \in 1..Len(list) |-> list[i] \o <<" (", "requests not available", ")">>]

\* the body of async_check_links(list, concurrency), up to the creation of the tasks
AsyncBatch(list, concurrency) ==
    /\ IF SessionMissing
       THEN /\ results' = [EmptyResults EXCEPT !.broken = Unavailable(list)]
            /\ mode' = "returned"
            /\ task' = <<>>
            /\ semaphore' = semaphore
       ELSE /\ results' = EmptyResults
            /\ mode' = "async"
            /\ task' = Pending(list)
            /\ semaphore' = concurrency
    /\ executor_class' = "None"
    /\ strategy' = "async"
    /\ start' = AtStart
    /\ max_workers' = concurrency
    /\ n_probed' = 0
    /\ n_io' = 0
    /\ all_raised' = FALSE
    /\ urls' = list
    /\ UNCHANGED <<limiter, service, failure_count, circuit_open, only_http>>

\* async_check_links(urls, max_concurrency): the picked links, the first one passed
\* twice when `twice`
AsyncCheckLinks(picks, twice, concurrency) ==
    LET base == Links(picks, 1)
        list == IF twice THEN base \o <<base[1]>> ELSE base
    IN  /\ mode = "direct"
        /\ Quiet(1)
        /\ twice => picks # {}
        /\ Cardinality(picks) + (IF twice THEN 1 ELSE 0) <= MaxUrls
        /\ AsyncBatch(list, concurrency)
        /\ prior' = NoPrior

\* the caller passes the links of the documents check_links_concurrent just reported
\* on to async_check_links of the same service, with the same concurrency
AsyncAfterPool ==
    /\ mode = "returned"
    /\ prior = NoPrior
    /\ strategy = "pool"
    /\ urls # <<>>
    /\ AsyncBatch(urls, max_workers)
    /\ prior' = AsPrior

\* a semaphore that never makes a task wait
PermitFreeAlways == TRUE

\* asyncio.Semaphore(max_concurrency): a permit is free
PermitFree == semaphore > 0

\* task i enters `async with semaphore` and starts its probe; a probe that returns at
\* once gives the permit back in the same step
TaskStart(i) ==
    /\ mode = "async"
    /\ task[i].pc = "pending"
    /\ \A j \in 1..(i - 1) : task[j].pc # "pending"
    /\ PermitFree
    /\ Enter(i, task[i].url)
    /\ semaphore' = IF EntryDecision(task[i].url) = "head" THEN semaphore - 1 ELSE semaphore
    /\ UNCHANGED <<limiter, service, batch, mode,
                   max_workers, urls, results, n_probed, all_raised, only_http>>

\* the loop over completed_results for one gathered result
AsyncBucket(result) ==
    IF Contains(result.reason, <<"skipped">>) THEN "skipped"
    ELSE IF result.is_valid THEN "valid" ELSE "broken"

AsyncEntry(result) ==
    IF AsyncBucket(result) = "broken"
    THEN result.url \o <<" (">> \o result.reason \o <<")">>
    ELSE result.url

RECURSIVE GatheredKeeps(_, _)
\* a loop that reports the URL of a task that raised as broken
GatheredKeeps(report, k) ==
    IF k > Len(task) THEN report
    ELSE IF task[k].pc = "raised"
         THEN GatheredKeeps(Put(report, "broken", task[k].url), k + 1)
    ELSE GatheredKeeps(Put(report, AsyncBucket(task[k].ret), AsyncEntry(task[k].ret)),
                       k + 1)

RECURSIVE Gathered(_, _)
\* results after the loop over the gathered tasks k..Len(task), in input order
Gathered(report, k) ==
    IF k > Len(task) THEN report
    ELSE IF task[k].pc = "raised" THEN Gathered(report, k + 1)
    ELSE Gathered(Put(report, AsyncBucket(task[k].ret), AsyncEntry(task[k].ret)), k + 1)

\* asyncio.gather has every task's result: they are put in the buckets and returned
Gather ==
    /\ mode = "async"
    /\ \A i \in 1..Len(task) : task[i].pc \in {"done", "raised"}
    /\ results' = Gathered(EmptyResults, 1)
    /\ mode' = "returned"
    /\ UNCHANGED <<limiter, service, batch, failure_count, circuit_open, task,
                   max_workers, semaphore, urls, n_probed, n_io, all_raised, only_http>>

Next ==
    \/ \E url \in DirectUrls : DirectCall(url)
    \/ \E i \in 1..Len(task) : HeadResponse(i)
    \/ \E i \in 1..Len(task) : GetResponse(i)
    \/ \E picks \in SUBSET (1..Len(BatchUrls)), workers \in 1..MaxConcurrency :
            CheckLinksConcurrent(picks, workers)
    \/ \E i \in 1..Len(task) : WorkerStart(i)
    \/ \E i \in 1..Len(task) : Collect(i)
    \/ \E i \in 1..Len(task) : CollectRaises(i)
    \/ PoolRaises
    \/ PoolReturn
    \/ \E picks \in SUBSET (1..Len(BatchUrls)), twice \in BOOLEAN,
          concurrency \in 1..MaxConcurrency :
            AsyncCheckLinks(picks, twice, concurrency)
    \/ \E i \in 1..Len(task) : TaskStart(i)
    \/ Gather
    \/ CheckLinksWithThreads
    \/ AsyncAfterPool

Spec == Init /\ [][Next]_vars

\* the steps of a batch that need no caller: a worker or a permit is free, a request is
\* answered within its timeout, a finished future is collected, the batch returns
Progress ==
    \/ \E i \in 1..Len(task) : mode # "direct" /\ HeadResponse(i)
    \/ \E i \in 1..Len(task) : mode # "direct" /\ GetResponse(i)
    \/ \E i \in 1..Len(task) : WorkerStart(i)
    \/ \E i \in 1..Len(task) : Collect(i)
    \/ \E i \in 1..Len(task) : CollectRaises(i)
    \/ PoolRaises
    \/ PoolReturn
    \/ \E i \in 1..Len(task) : TaskStart(i)
    \/ Gather

\* the executor and the event loop run what is ready; requests end (timeout=10)
FairSpec == Spec /\ WF_vars(Progress)

\* ---------------------------------------- RateLimitMiddleware: dispatch
\* [req_time for req_time in self.requests[client_ip] if req_time > window_start]
Cleaned(list, window_start) ==
    SelectSeq(list, LAMBDA req_time : req_time > window_start)

\* a check that lets one request more through
LimitReachedLate(list, limit) == Len(list) > limit

\* len(self.requests[client_ip]) >= self.config.rate_limit_requests
LimitReached(list, limit) == Len(list) >= limit

\* what dispatch did with a request: passed it to call_next or not, and the status of
\* the response it returned (the application's own answer is taken to be 200)
Answer(request, at, forwarded, status) ==
    [request |-> request, at |-> at, forwarded |-> forwarded, status |-> status]

\* dispatch(request, call_next); nothing is awaited before call_next, so the event
\* loop runs the admission of one request without interleaving another
Dispatch(request) ==
    /\ Len(log) < MaxRequests
    /\ IF ~config.enable_rate_limiting
       THEN /\ log' = Append(log, Answer(request, current_time, TRUE, 200))
            /\ UNCHANGED requests
       ELSE LET client_ip == ClientIp(request)
                window_start == current_time - config.rate_limit_window_seconds
                kept == Cleaned(requests[client_ip], window_start)
            IN  IF LimitReached(kept, config.rate_limit_requests)
                THEN /\ requests' = [requests EXCEPT ![client_ip] = kept]
                     /\ log' = Append(log, Answer(request, current_time, FALSE, 429))
                ELSE /\ requests' =
                            [requests EXCEPT ![client_ip] = Append(kept, current_time)]
                     /\ log' = Append(log, Answer(request, current_time, TRUE, 200))
    /\ UNCHANGED <<checker, config, current_time>>

\* time passes: the next time.time() reads one second more
Tick ==
    /\ current_time < MaxTime
    /\ current_time' = current_time + 1
    /\ UNCHANGED <<checker, config, requests, log>>

\* the application is up with the middleware installed; the link checker is idle
RateInit ==
    /\ CheckerInit
    /\ service_class = "DocUtils"
    /\ session
    /\ has_interpreters
    /\ ~no_interpreters
    /\ LimiterInit(Configs)

RateNext ==
    \/ \E request \in Requests : Dispatch(request)
    \/ Tick

RateSpec == RateInit /\ [][RateNext]_vars


\* ------------------------------------------------------------- the claims
Min(a, b) == IF a < b THEN a ELSE b

\* entry is the report's string for url: the URL itself, or the URL and a suffix
IsEntryOf(entry, url) ==
    /\ Len(entry) >= Len(url)
    /\ SubSeq(entry, 1, Len(url)) = url
    /\ Len(entry) > Len(url) => entry[Len(url) + 1] = " ("

CountIn(bucket, url) == Cardinality({k \in 1..Len(bucket) : IsEntryOf(bucket[k], url)})

Reported(url) ==
    CountIn(results.valid, url) + CountIn(results.broken, url)
        + CountIn(results.skipped, url)

\* C1: when a batch returns, every URL of the deduplicated input is in exactly one of
\* valid, broken, skipped, and the three buckets together hold |dedup(input)| entries.
PartitionInvariant ==
    mode = "returned" =>
        LET input == {urls[k] : k \in 1..Len(urls)} IN
        /\ Len(results.valid) + Len(results.broken) + Len(results.skipped)
                = Cardinality(input)
        /\ \A url \in input : Reported(url) = 1

\* C2: during a batch the probes started and not finished never exceed max_workers
\* (pool) or max_concurrency (async), and the semaphore's free permits are exactly the
\* ones not held by a probe in flight.
ConcurrencyCeiling ==
    mode \in {"pool", "failing", "async"} =>
        /\ Cardinality(InFlight) <= max_workers
        /\ mode = "async" => semaphore = max_workers - Cardinality(InFlight)

\* C2 witness: more URLs than workers, every worker busy, a probe still waiting
CeilingReached ==
    /\ mode = "pool"
    /\ Len(task) > max_workers
    /\ Cardinality(InFlight) = max_workers
    /\ \E i \in 1..Len(task) : task[i].pc = "pending"

\* C6: once circuit_open is true it is true in every later state of the service.
BreakerOneWay == [][circuit_open => circuit_open']_vars

\* C6 witness: a batch in which a success was recorded returned with the breaker open
OpenAtReturnDespiteSuccess ==
    /\ mode = "returned"
    /\ circuit_open
    /\ results.valid # <<>>

\* ret is the tuple of check_single_url, not a LinkResult
IsTuple(ret) == "reason" \in DOMAIN ret

\* the result of a probe that received an HTTP response
GotResponse(ret) ==
    IF IsTuple(ret)
    THEN SubSeq(ret.reason, 1, 1) = <<"status: ">>
    ELSE ret.status_code # NoStatus

\* this step is probe i of a LinkCheckerService returning after an HTTP response and
\* recording it on the service's breaker
Succeeds(i) ==
    /\ HasBreaker
    /\ task[i].pc \in {"head", "get"}
    /\ task'[i].pc = "done"
    /\ GotResponse(task'[i].ret)

MsgOf(ret) == IF IsTuple(ret) THEN ret.reason ELSE ret.error_message

Finished(i) == task[i].pc \in {"done", "collected"}

\* the probe of task i went as far as a request
Requested(i) ==
    /\ Finished(i)
    /\ MsgOf(task[i].ret) \notin {<<"skipped">>, <<"circuit breaker open">>,
                                  <<"requests not available">>}

\* C9: a probe whose origin answers with HTTP statuses only (also 429 and 5xx) records a
\* success and never a failure, so the breaker cannot open; and the probe is reported
\* with the status code it received.
HttpAnswersSpareBreaker ==
    /\ only_http => (failure_count = 0 /\ ~circuit_open)
    /\ \A i \in 1..Len(task) :
          (Requested(i) /\ OriginIsHttp(task[i].url, "HEAD")
                /\ OriginIsHttp(task[i].url, "GET"))
              => GotResponse(task[i].ret)

\* the exception text of the request that fails for url, NoneMsg when none does
TransportText(url) ==
    LET head == Send(url, "HEAD")
        get == Send(url, "GET")
    IN  IF head.kind = "exception" /\ ~OriginIsHttp(url, "HEAD") THEN head.text
        ELSE IF FallsBack("HEAD", head) /\ get.kind = "exception"
                    /\ ~OriginIsHttp(url, "GET") THEN get.text
        ELSE NoneMsg

\* C10: a probe whose HEAD (or fallback GET) raises a transport exception or times out
\* returns is_valid false, the exception text and no status code, and its URL is reported
\* in the broken bucket.
TransportFailureIsBroken ==
    \A i \in 1..Len(task) :
        (Requested(i) /\ TransportText(task[i].url) # NoneMsg) =>
            /\ ~task[i].ret.is_valid
            /\ MsgOf(task[i].ret) = TransportText(task[i].url)
            /\ ~GotResponse(task[i].ret)
            /\ mode = "returned" =>
                    /\ CountIn(results.broken, task[i].url) >= 1
                    /\ CountIn(results.valid, task[i].url) = 0
                    /\ CountIn(results.skipped, task[i].url) = 0

\* the methods of the requests a probe issued, in order
Methods(calls) == [k \in 1..Len(calls) |-> calls[k].method]

\* C11: a URL containing a skip substring is never requested; its probe returns
\* is_valid true with "skipped", whatever its origin would answer, and when the batch
\* returns the URL is in skipped and in no other bucket.
SkipPolicy ==
    /\ \A i \in 1..Len(task) :
          ShouldSkip(task[i].url) =>
              /\ task[i].pc \notin {"head", "get", "raised"}
              /\ task[i].calls = <<>>
              /\ Finished(i) =>
                    (task[i].ret.is_valid /\ MsgOf(task[i].ret) = <<"skipped">>)
    /\ mode = "returned" =>
          \A url \in SetOf(urls) :
              ShouldSkip(url) =>
                  /\ CountIn(results.skipped, url) >= 1
                  /\ CountIn(results.valid, url) = 0
                  /\ CountIn(results.broken, url) = 0

\* the status and validity a probe's result carries are those of the response `code`
Carries(ret, code) ==
    /\ ret.is_valid = (code < 400)
    /\ IF IsTuple(ret) THEN ret.reason = <<"status: ">> \o ToStr(code)
                       ELSE ret.status_code = code

\* C12: a probe that goes as far as a request issues one HEAD; it issues a GET after it
\* exactly when the HEAD was answered 405, and then its status code and validity are
\* those of the GET's response.
MethodFallback ==
    \A i \in 1..Len(task) :
        LET calls == task[i].calls IN
        /\ task[i].pc \in {"head", "get"} => calls # <<>>
        /\ calls # <<>> =>
              /\ Methods(calls) \in {<<"HEAD">>, <<"HEAD", "GET">>}
              /\ task[i].pc = "head" => Len(calls) = 1
              /\ task[i].pc # "head" => (Len(calls) = 2 <=> calls[1].code = 405)
              /\ (Finished(i) /\ calls[Len(calls)].code # NoStatus) =>
                    Carries(task[i].ret, calls[Len(calls)].code)

\* C12 witness: HEAD answered 405, GET answered 200, the URL returned as valid
FellBackToGet ==
    \E i \in 1..Len(task) :
        /\ Finished(i)
        /\ Methods(task[i].calls) = <<"HEAD", "GET">>
        /\ task[i].calls[1].code = 405
        /\ task[i].calls[2].code = 200
        /\ task[i].ret.is_valid

\* the batch that just returned ran the links of the batch before it, from the same
\* state of the service
RanAgain ==
    /\ mode = "returned"
    /\ prior # NoPrior
    /\ prior.urls = SetOf(urls)
    /\ prior.start = start

SameReport ==
    /\ SetOf(results.valid) = prior.valid
    /\ SetOf(results.broken) = prior.broken
    /\ SetOf(results.skipped) = prior.skipped

\* C13: for the same input URLs and the same origins, the worker pool and
\* async_check_links return the same members in valid, broken and skipped, the strings
\* stored in broken included.
PoolAsyncEquivalence ==
    (RanAgain /\ session /\ prior.strategy = "pool" /\ strategy = "async") => SameReport

\* the status code a probe's result makes known, NoStatus when it has none
KnownStatus(ret) ==
    IF ~IsTuple(ret) THEN ret.status_code
    ELSE IF GotResponse(ret) THEN CHOOSE code \in 100..599 : ret.reason = <<"status: ">> \o ToStr(code)
    ELSE NoStatus

\* the bucket and the string the bucketing rule gives a probe's result
RuleBucket(ret) ==
    IF MsgOf(ret) = <<"skipped">> THEN "skipped"
    ELSE IF ret.is_valid THEN "valid" ELSE "broken"

RuleEntry(ret) ==
    IF RuleBucket(ret) = "broken" /\ KnownStatus(ret) # NoStatus
    THEN ret.url \o <<" (", "status: ">> \o ToStr(KnownStatus(ret)) \o <<")">>
    ELSE ret.url

\* C14: when a batch returns, each probe's result is in skipped if its message equals
\* "skipped", else in valid if it is valid, else in broken as the URL followed by
\* " (status: <code>)" exactly when it has a status code; localhost:9999/x, good.example/ok
\* (200) and bad.example/missing (404) give valid {good}, broken {"bad (status: 404)"},
\* skipped {localhost}.
BucketingRule ==
    mode = "returned" =>
        /\ \A i \in 1..Len(task) :
              Finished(i) =>
                  /\ RuleEntry(task[i].ret) \in SetOf(results[RuleBucket(task[i].ret)])
                  /\ \A b \in {"valid", "broken", "skipped"} \ {RuleBucket(task[i].ret)} :
                        CountIn(results[b], task[i].url) = 0
        /\ (urls = <<uLocal, uGood, uBad>> /\ session /\ ~start.circuit_open) =>
              /\ SetOf(results.valid) = {uGood}
              /\ SetOf(results.broken) = {uBad \o <<" (", "status: ", "4", "0", "4", ")">>}
              /\ SetOf(results.skipped) = {uLocal}

\* what the last request of a probe of url ends with
FinalOutcome(url) ==
    IF FallsBack("HEAD", Send(url, "HEAD")) THEN Send(url, "GET") ELSE Send(url, "HEAD")

\* C15: a transport exception, a timeout, an HTTP error status or an open breaker never
\* leaves the probe or stops the batch: the probe returns an invalid result for its URL,
\* the batch goes on and the report it returns covers every such URL.
FailureIsolation ==
    /\ \A i \in 1..Len(task) :
          /\ task[i].pc = "raised" => FinalOutcome(task[i].url).kind = "base_exception"
          /\ Finished(i) =>
                /\ task[i].ret.url = task[i].url
                /\ (~ShouldSkip(task[i].url) /\ FinalOutcome(task[i].url).kind = "exception")
                        => ~task[i].ret.is_valid
                /\ (~ShouldSkip(task[i].url) /\ FinalOutcome(task[i].url).code >= 400)
                        => ~task[i].ret.is_valid
                /\ MsgOf(task[i].ret) = <<"circuit breaker open">> => ~task[i].ret.is_valid
    /\ mode \in {"failing", "crashed"} => \E i \in 1..Len(task) : task[i].pc = "raised"
    /\ mode = "returned" =>
          /\ \A i \in 1..Len(task) : task[i].pc \in {"done", "collected", "raised"}
          /\ \A url \in SetOf(urls) :
                FinalOutcome(url).kind # "base_exception" => Reported(url) >= 1

\* C15 witness: a batch with a timeout, an HTTP error and a rejection by the open breaker
\* returned, all three reported broken
FailuresIsolated ==
    /\ mode = "returned"
    /\ strategy = "pool"
    /\ \E i, j, k \in 1..Len(task) :
          /\ FinalOutcome(task[i].url).kind = "exception"
          /\ task[i].calls # <<>>
          /\ task[j].ret.status_code >= 400
          /\ task[k].ret = CircuitOpenResult(task[k].url)
    /\ Len(results.broken) = 3

\* the probes a batch made for url
ProbesOf(url) == {i \in 1..Len(task) : task[i].url = url}

\* C16: within a batch each distinct URL of the input is probed once and is at most once
\* in the report, however often the input holds it.
DedupBeforeDispatch ==
    mode \in {"pool", "failing", "async", "returned", "crashed"} =>
        \A url \in SetOf(urls) :
            /\ Cardinality(ProbesOf(url)) <= 1
            /\ task # <<>> => Cardinality(ProbesOf(url)) = 1
            /\ mode = "returned" => Reported(url) <= 1

StrategySelection ==
    /\ use_interpreters <=> (has_interpreters /\ ~no_interpreters)
    /\ executor_class # "None" =>
          /\ strategy = "pool"
          /\ executor_class =
                IF has_interpreters /\ ~no_interpreters
                THEN "InterpreterPoolExecutor"
                ELSE "ThreadPoolExecutor"

\* C18 witness: the runtime has the isolated executor, the caller disabled it, and the
\* batch runs on threads
DisabledRunsOnThreads ==
    /\ mode = "pool"
    /\ has_interpreters
    /\ no_interpreters
    /\ executor_class = "ThreadPoolExecutor"
    /\ InFlight # {}

\* C19: when the documents hold no link, check_links_concurrent returns three empty
\* lists, builds no executor and starts no probe.
EmptyInput ==
    (strategy = "pool" /\ urls = <<>>) =>
        /\ mode = "returned"
        /\ results = EmptyResults
        /\ executor_class = "None"
        /\ task = <<>>
        /\ n_io = 0

\* C19 witness: check_links_concurrent returned for documents without links
NoLinksReturned ==
    /\ strategy = "pool"
    /\ urls = <<>>
    /\ mode = "returned"

\* C20: without a session, _check_single_link issues no request; it returns
\* "requests not available" with is_valid false for a URL outside the skip list (the
\* breaker closed) and the skipped result for a skip-listed URL.
UnavailableSingleProbe ==
    (mode = "direct" /\ ~session) =>
        /\ n_io = 0
        /\ task[1].pc \in {"idle", "done"}
        /\ task[1].calls = <<>>
        /\ task[1].pc = "done" =>
              task[1].ret = IF ShouldSkip(task[1].url) THEN SkipResult(task[1].url)
                            ELSE IF circuit_open THEN CircuitOpenResult(task[1].url)
                            ELSE UnavailableResult(task[1].url)

\* C20 witness: without a session and with the breaker closed, at least two calls were
\* made on URLs outside the skip list and the last one returned "requests not available"
UnavailableReturned ==
    /\ mode = "direct"
    /\ ~session
    /\ ~circuit_open
    /\ n_probed >= 2
    /\ task[1].ret = UnavailableResult(uGood)

\* C21: without a session, async_check_links reports every URL of its input in broken
\* as "<url> (requests not available)", leaves valid and skipped empty and starts no
\* probe task.
UnavailableAsyncBatch ==
    (strategy = "async" /\ ~session) =>
        /\ mode = "returned"
        /\ task = <<>>
        /\ n_io = 0
        /\ results.valid = <<>>
        /\ results.skipped = <<>>
        /\ Len(results.broken) = Len(urls)
        /\ \A k \in 1..Len(urls) :
              results.broken[k] = urls[k] \o <<" (", "requests not available", ")">>

\* C21 witness: async_check_links returned for two URLs without a session
UnavailableBatchReturned ==
    /\ strategy = "async"
    /\ ~session
    /\ mode = "returned"
    /\ Len(urls) = 2
    /\ Len(results.broken) = 2

\* this step is probe i entering its checks, for any URL
Starts(i) ==
    \/ /\ mode = "direct"
       /\ mode' = "direct"
       /\ i = 1
       /\ Quiet(1)
       /\ task'[1] # task[1]
    \/ /\ mode \in {"pool", "failing", "async"}
       /\ task[i].pc = "pending"
       /\ task'[i].pc # "pending"

\* C22: a probe consults the skip list first, the breaker second and the network last:
\* a skip-listed URL is returned as skipped also while the breaker is open, a URL
\* rejected by the breaker causes no request, and a probe that has returned is never
\* run again within its batch.
CheckOrdering ==
    [][\A i \in 1..Len(task) :
          /\ Starts(i) =>
                IF ShouldSkip(task'[i].url)
                THEN /\ task'[i].pc = "done"
                     /\ task'[i].ret.is_valid
                     /\ MsgOf(task'[i].ret) = <<"skipped">>
                     /\ n_io' = n_io
                ELSE IF HasBreaker /\ circuit_open
                THEN /\ task'[i].pc = "done"
                     /\ MsgOf(task'[i].ret) = <<"circuit breaker open">>
                     /\ n_io' = n_io
                ELSE task'[i].pc = "head" => task'[i].calls = <<Call("HEAD")>>
          /\ (mode \in {"pool", "failing", "async"} /\ Finished(i)) =>
                (mode' \in {"pool", "failing", "async", "returned", "crashed"} =>
                    (Finished(i)' /\ task'[i].ret = task[i].ret
                        /\ task'[i].calls = task[i].calls))]_vars

\* C22 witness: a skip-listed URL was returned as skipped by a service whose breaker
\* is open
SkippedWhileOpen ==
    /\ HasBreaker
    /\ circuit_open
    /\ mode = "direct"
    /\ task[1].ret = SkipResult(uLocal)

\* C23: a probe that returns through the skip check leaves failure_count and
\* circuit_open as they were and issues no request, so skip-listed URLs between
\* transport failures neither reset nor advance the breaker.
SkipPathFrame ==
    [][\A i \in 1..Len(task) :
          (Starts(i) /\ ShouldSkip(task'[i].url)) =>
              /\ failure_count' = failure_count
              /\ circuit_open' = circuit_open
              /\ n_io' = n_io]_vars

\* C23 witness: a skip-listed URL was probed after three transport failures in a row,
\* and the counter still stands at three
SkippedBetweenFailures ==
    /\ HasBreaker
    /\ mode = "direct"
    /\ all_raised
    /\ failure_count = 3
    /\ n_probed = 3
    /\ task[1].ret = SkipResult(uLoop)

\* no probe of the batch ends with an exception its handler does not catch
EveryProbeReturns ==
    \A i \in 1..Len(task) : FinalOutcome(task[i].url).kind # "base_exception"

\* C24: check_links_concurrent returns only when the result of every submitted probe
\* was collected, none in flight and none left out; and when every probe ends, the
\* batch returns.
BatchCompletion ==
    /\ [](( mode = "returned" /\ strategy = "pool") =>
            /\ \A i \in 1..Len(task) : task[i].pc = "collected"
            /\ InFlight = {}
            /\ Len(results.valid) + Len(results.broken) + Len(results.skipped)
                    = Len(task))
    /\ ((mode = "pool" /\ EveryProbeReturns) ~> (mode = "returned"))

\* C24 witness: a batch of more probes than workers returned with every result collected
AllCollectedAtReturn ==
    /\ mode = "returned"
    /\ strategy = "pool"
    /\ Len(task) > max_workers
    /\ Len(results.valid) + Len(results.broken) + Len(results.skipped) = Len(task)

\* C25: a task of async_check_links that ends with an exception its handler does not
\* catch does not stop the batch; its URL is put in no bucket, and every other task's
\* result is put in a bucket once.
AsyncGatherStep ==
    strategy = "async" =>
        /\ mode \notin {"failing", "crashed"}
        /\ (mode = "returned" /\ session) =>
              /\ \A i \in 1..Len(task) : task[i].pc \in {"done", "raised"}
              /\ \A url \in SetOf(urls) :
                    Reported(url)
                        = Cardinality({i \in ProbesOf(url) : task[i].pc = "done"})

\* C25 witness: a batch returned in which one task raised and another URL is valid
DroppedAtGather ==
    /\ strategy = "async"
    /\ mode = "returned"
    /\ \E i \in 1..Len(task) : task[i].pc = "raised" /\ Reported(task[i].url) = 0
    /\ results.valid # <<>>

\* the last request of probe i returned a response
Responded(i) ==
    /\ task[i].calls # <<>>
    /\ task[i].calls[Len(task[i].calls)].code # NoStatus

\* C26: a probe's result has a status code exactly when its last request returned a
\* response, and then that response's; the skipped, circuit-open, unavailable and
\* exception results have none; and the result is valid exactly when that status is
\* below 400 or the URL is skip-listed.
OutcomeWellFormed ==
    \A i \in 1..Len(task) :
        Finished(i) =>
            LET ret == task[i].ret
                code == task[i].calls[Len(task[i].calls)].code
            IN  /\ KnownStatus(ret) # NoStatus <=> Responded(i)
                /\ Responded(i) => KnownStatus(ret) = code
                /\ MsgOf(ret) \in {<<"skipped">>, <<"circuit breaker open">>,
                                   <<"requests not available">>}
                        => KnownStatus(ret) = NoStatus
                /\ ret.is_valid <=>
                        ((Responded(i) /\ code < 400) \/ ShouldSkip(task[i].url))

\* C26 witness: a batch returned with a skipped result, an HTTP error and an exception
ThreeKindsOfOutcome ==
    /\ mode = "returned"
    /\ strategy = "pool"
    /\ \E i, j, k \in 1..Len(task) :
          /\ task[i].ret = SkipResult(task[i].url)
          /\ task[j].ret.status_code = 404
          /\ ~task[j].ret.is_valid
          /\ task[k].calls # <<>>
          /\ task[k].ret.status_code = NoStatus

\* C27: a URL is reported in skipped only if it contains a skip substring, whatever the
\* text of a probe's error message.
SkippedBucketSound ==
    mode = "returned" =>
        \A k \in 1..Len(results.skipped) : ShouldSkip(results.skipped[k])

BatchRunning == mode \in {"pool", "failing", "async"}

\* C28: in a batch of at most N concurrent probes, once the breaker is open no probe
\* starts a request: the probes still in flight are ones that passed the breaker check
\* before the trip, at most N - 1 of them, and every probe that starts is rejected as
\* circuit-open.
BoundedOvershoot ==
    [][(HasBreaker /\ circuit_open /\ BatchRunning /\ BatchRunning') =>
          /\ Cardinality(InFlight) <= max_workers - 1
          /\ InFlight' \subseteq InFlight
          /\ \A i \in 1..Len(task) :
                (Starts(i) /\ ~ShouldSkip(task[i].url)) =>
                    /\ task'[i].pc = "done"
                    /\ MsgOf(task'[i].ret) = <<"circuit breaker open">>
                    /\ n_io' = n_io]_vars

\* C28 witness: the breaker tripped during a batch of two workers on the first failure,
\* the other probe in flight failed after the trip and the next probe was rejected
OvershootByOne ==
    /\ HasBreaker
    /\ BatchRunning
    /\ max_workers = 2
    /\ start.failure_count = failure_threshold - 1
    /\ ~start.circuit_open
    /\ circuit_open
    /\ \E i, j, k \in 1..Len(task) :
          /\ i # j
          /\ task[i].pc = "done" /\ task[i].calls # <<>> /\ ~task[i].ret.is_valid
          /\ task[j].pc = "done" /\ task[j].calls # <<>> /\ ~task[j].ret.is_valid
          /\ KnownStatus(task[i].ret) = NoStatus
          /\ KnownStatus(task[j].ret) = NoStatus
          /\ task[k].pc = "done"
          /\ MsgOf(task[k].ret) = <<"circuit breaker open">>

\* C29: in async_check_links every task gives its permit back however it leaves, so the
\* free permits are those no probe in flight holds, all of them are free when the batch
\* returns, and every batch returns.
SemaphoreDiscipline ==
    /\ []((strategy = "async" /\ session) =>
            /\ semaphore = max_workers - Cardinality(InFlight)
            /\ semaphore >= 0
            /\ mode = "returned" => semaphore = max_workers)
    /\ ((mode = "async") ~> (mode = "returned" /\ semaphore = max_workers))

\* C29 witness: a batch of more tasks than permits returned after a skip, a response and
\* an exception, all permits free
PermitsBackAtReturn ==
    /\ strategy = "async"
    /\ mode = "returned"
    /\ Len(task) > max_workers
    /\ semaphore = max_workers
    /\ results.skipped # <<>>
    /\ results.valid # <<>>
    /\ results.broken # <<>>


\* the requests of `client` passed to call_next so far whose time lies in (t - window, t]
ForwardedIn(client, t) ==
    {k \in 1..Len(log) :
        /\ log[k].forwarded
        /\ ClientIp(log[k].request) = client
        /\ log[k].at > t - config.rate_limit_window_seconds
        /\ log[k].at <= t}

\* the request dispatch answers in this step, if it answers one
Dispatched == log'[Len(log')]

\* C30: with rate limiting enabled, at most rate_limit_requests forwarded requests of one
\* client lie in any window (t - rate_limit_window_seconds, t]; a request that finds its
\* client's window full is answered 429, not forwarded and not recorded, any other is
\* recorded and forwarded; and a request leaves the record of every other client alone.
RateLimitWindowBound ==
    /\ [](config.enable_rate_limiting =>
            \A client \in ClientIps :
                \A t \in 0..(current_time + config.rate_limit_window_seconds) :
                    Cardinality(ForwardedIn(client, t)) <= config.rate_limit_requests)
    /\ [][(config.enable_rate_limiting /\ Len(log') = Len(log) + 1) =>
            LET client == ClientIp(Dispatched.request)
                full == Cardinality(ForwardedIn(client, current_time))
                            >= config.rate_limit_requests
            IN  /\ Dispatched.at = current_time
                /\ full =>
                        /\ ~Dispatched.forwarded
                        /\ Dispatched.status = 429
                        /\ Len(requests'[client]) <= Len(requests[client])
                /\ ~full =>
                        /\ Dispatched.forwarded
                        /\ Dispatched.status # 429
                        /\ requests'[client][Len(requests'[client])] = current_time
                /\ \A other \in ClientIps \ {client} :
                        requests'[other] = requests[other]]_vars

\* C30 witness: a client is refused with its window full, another client is admitted at
\* the same time, and the refused client is admitted again once the window has moved on
RefusedThenAdmitted ==
    /\ config.enable_rate_limiting
    /\ \E i, j, k \in 1..Len(log) :
          /\ i < j /\ j < k
          /\ ~log[i].forwarded /\ log[i].status = 429
          /\ log[j].forwarded
          /\ ClientIp(log[j].request) # ClientIp(log[i].request)
          /\ log[j].at = log[i].at
          /\ log[k].forwarded
          /\ ClientIp(log[k].request) = ClientIp(log[i].request)
          /\ log[k].at > log[i].at

=============================================================================
